---- MODULE Spec2Model ----
(***************************************************************************)
(* A model of logreduce's model crate (src/model/src/model.rs): Source,    *)
(* Content, IndexName, Index and Model, with the training and reporting    *)
(* protocols.  Strings are sequences of one-character strings, so that     *)
(* slicing (get_relative) and suffix tests (is_valid) are computed.        *)
(***************************************************************************)
EXTENDS Naturals, Sequences, FiniteSets

VARIABLES
    pc,            \* position of the operation under way
    src,           \* Source functions: the Source the functions are applied to
    relative,      \* Source functions: Source::get_relative's result
    valid,         \* Source functions: Source::is_valid's result
    hm,            \* lookup_or_single: the map
    key,           \* lookup_or_single: the key looked up
    found,         \* lookup_or_single: the Option returned
    baselines,     \* Model::train: the Baselines argument
    grouped,       \* Model::train: Content::group_sources' Result
    groups,        \* Model::train: what is left of group_sources' map (drain)
    indexes,       \* Model::train: the local `indexes` HashMap
    mk_calls,      \* Model::train: the groups mk_index was called for, in order
    dropped,       \* Index::train: the calls that returned early, with the ChunkIndex dropped
    model,         \* Model::train's Result<Model>
    saved,         \* Model::save: the Models written
    self_indexes,  \* Model::report: self.indexes
    target,        \* Model::report: the target Content
    sources,       \* Model::report: target.get_sources()
    pos,           \* Model::report: index of the next Source of the for loop
    targets,       \* Model::report: the local `targets` Vec
    inspected,     \* Model::report: what Index::inspect returned, per Source
    report         \* Model::report's Result<Report>

vars == <<pc, src, relative, valid, hm, key, found, baselines, grouped, groups, indexes,
          mk_calls, dropped, model, saved, self_indexes, target, sources, pos,
          targets, inspected, report>>

sourceVars == <<src, relative, valid>>
lookupVars == <<hm, key, found>>
trainVars  == <<baselines, grouped, groups, indexes, mk_calls, dropped, model, saved>>
reportVars == <<self_indexes, target, sources, pos, targets, inspected, report>>

----------------------------------------------------------------------------
(* Bounds *)

MaxContents == 2    \* Contents in a Baselines list
MaxItems    == 3    \* items yielded by the enumerators of one Baselines list
MaxTarget   == 2    \* items yielded by the target's enumerator
MaxStream   == 2    \* items yielded by one ChunkProcessor

----------------------------------------------------------------------------
(* Result and Option *)

Ok(v)  == [ok |-> TRUE, val |-> v, err |-> ""]
Err(e) == [ok |-> FALSE, val |-> <<>>, err |-> e]
Some(v) == [some |-> TRUE, val |-> v]
None    == [some |-> FALSE]
Panic   == [panic |-> TRUE]

SeqsUpTo(S, n) == UNION {[1..k -> S] : k \in 0..n}

----------------------------------------------------------------------------
(* Source *)

Local(base_len, path_buf, utf8) ==
    [kind |-> "Local", base_len |-> base_len, path |-> path_buf, utf8 |-> utf8]
Remote(base_len, url) ==
    [kind |-> "Remote", base_len |-> base_len, path |-> url, utf8 |-> TRUE]

\* str::ends_with
ends_with(s, ext) ==
    /\ Len(s) >= Len(ext)
    /\ SubSeq(s, Len(s) - Len(ext) + 1, Len(s)) = ext

\* &s[n..]: the slice panics when n is past the end
SliceFrom(s, n) == IF n <= Len(s) THEN SubSeq(s, n + 1, Len(s)) ELSE Panic

\* path.to_str().unwrap_or(""): a path that is not UTF-8 reads as ""
as_str(source) ==
    CASE source.kind = "Local"  -> IF source.utf8 THEN source.path ELSE <<>>
      [] source.kind = "Remote" -> source.path

get_relative(source) ==
    CASE source.kind = "Local" ->
            SliceFrom(IF source.utf8 THEN source.path ELSE <<>>, source.base_len)
      [] source.kind = "Remote" -> SliceFrom(source.path, source.base_len)

NonTextExtensions ==
    { <<".", "i", "c", "o">>, <<".", "p", "n", "g">>, <<".", "c", "l", "f">>,
      <<".", "s", "q", "l", "i", "t", "e">> }

\* is_valid testing the relative identity instead of the whole string
is_valid_relative(source) ==
    LET whole == as_str(source)
        s == IF source.base_len <= Len(whole)
             THEN SubSeq(whole, source.base_len + 1, Len(whole)) ELSE whole
    IN  \A ext \in NonTextExtensions : ~ends_with(s, ext)

is_valid(source) ==
    LET s == as_str(source)
    IN  \A ext \in NonTextExtensions : ~ends_with(s, ext)

----------------------------------------------------------------------------
(* The Source functions applied to one Source *)

Stems == { <<>>, <<"d", "/">>, <<"d", "/", "f">> }
Tails == NonTextExtensions \cup
         { <<>>, <<".", "p", "n">>, <<"p", "n", "g">>, <<".", "p", "n", "g", "1">>,
           <<".", "l", "o", "g">>, <<".", "P", "N", "G">> }
PathInputs == { s \o t : s \in Stems, t \in Tails }
SourceInputs ==
    UNION { UNION { { Local(n, p, TRUE), Local(n, p, FALSE), Remote(n, p) }
                    : n \in 0..Len(p) } : p \in PathInputs }

NoSource == Local(0, <<>>, TRUE)

SourceIdle == src = NoSource /\ relative = <<>> /\ valid = TRUE
LookupIdle == hm = <<>> /\ key = <<>> /\ found = None
TrainIdle  == /\ baselines = <<>> /\ grouped = None /\ groups = <<>> /\ indexes = <<>>
              /\ mk_calls = <<>> /\ dropped = <<>> /\ model = None /\ saved = <<>>
ReportIdle == /\ self_indexes = <<>> /\ target = <<>> /\ sources = <<>> /\ pos = 0
              /\ targets = <<>> /\ inspected = <<>> /\ report = None

InitSource ==
    /\ pc = "source"
    /\ src \in SourceInputs
    /\ relative = <<>> /\ valid = TRUE
    /\ LookupIdle /\ TrainIdle /\ ReportIdle

\* get_relative and is_valid on src
SourceCall ==
    /\ pc = "source"
    /\ pc' = "source_done"
    /\ relative' = get_relative(src)
    /\ valid' = is_valid(src)
    /\ UNCHANGED <<src, lookupVars, trainVars, reportVars>>

SpecSource == InitSource /\ [][SourceCall]_vars

----------------------------------------------------------------------------
(* lookup_or_single and Model::get_index *)

\* ChunkIndex as the trainer leaves it: the Sources added, in order, and whether
\* complete() ran
NewChunkIndex == [added |-> <<>>, completed |-> FALSE]

\* mk_index()
mk_index == NewChunkIndex

\* lookup_or_single returning the first value of any non-empty map
lookup_or_first(m, k) ==
    IF k \in DOMAIN m
    THEN Some(m[k])
    ELSE IF Cardinality(DOMAIN m) >= 1
         THEN Some(m[CHOOSE x \in DOMAIN m : TRUE])
         ELSE None

lookup_or_single(m, k) ==
    IF k \in DOMAIN m
    THEN Some(m[k])
    ELSE IF Cardinality(DOMAIN m) = 1
         THEN Some(m[CHOOSE x \in DOMAIN m : TRUE])
         ELSE None

KeyInputs == { <<"a">>, <<"b">>, <<"z">> }
ValueInputs == { [added |-> <<x>>, completed |-> TRUE] : x \in {"v", "w"} }
MapInputs == UNION { [K -> ValueInputs] : K \in SUBSET KeyInputs }

InitLookup ==
    /\ pc = "lookup"
    /\ hm \in MapInputs
    /\ key \in KeyInputs
    /\ found = None
    /\ SourceIdle /\ TrainIdle /\ ReportIdle

LookupCall ==
    /\ pc = "lookup"
    /\ pc' = "lookup_done"
    /\ found' = lookup_or_single(hm, key)
    /\ UNCHANGED <<hm, key, sourceVars, trainVars, reportVars>>

SpecLookup == InitLookup /\ [][LookupCall]_vars

\* C1: the value under the key when the map has the key; else the single
\* entry's value when the map has exactly one entry; else None.
C1_LookupOrSingle ==
    pc = "lookup_done" =>
        /\ key \in DOMAIN hm => found = Some(hm[key])
        /\ (key \notin DOMAIN hm /\ Cardinality(DOMAIN hm) = 1) =>
               \E k \in DOMAIN hm : found = Some(hm[k])
        /\ (key \notin DOMAIN hm /\ Cardinality(DOMAIN hm) # 1) => found = None

\* the fallback has returned the single entry under another key
C1_Witness ==
    /\ pc = "lookup_done"
    /\ key \notin DOMAIN hm
    /\ Cardinality(DOMAIN hm) = 1
    /\ found.some

----------------------------------------------------------------------------
(* IndexName and Content *)

Digits == {"0", "1", "2", "3", "4", "5", "6", "7", "8", "9"}

\* IndexName::from_path: the normalized form of a relative identity; the
\* normalization modelled drops the digits
from_path(path) == SelectSeq(path, LAMBDA c : c \notin Digits)

from_source(source) == from_path(get_relative(source))

\* A Content, by what its enumerator (file_iter, dir_iter, httpdir_iter,
\* sources_iter) yields: a sequence of Result<Source>
Content(kind, iter) == [kind |-> kind, iter |-> iter]

get_sources_iter(content) ==
    CASE content.kind = "File"      -> content.iter
      [] content.kind = "Directory" -> content.iter
      [] content.kind = "Zuul"      -> content.iter

\* Iterator<Item = Result<T>>::collect::<Result<Vec<T>>>()
RECURSIVE collect(_)
collect(rs) ==
    IF rs = <<>> THEN Ok(<<>>)
    ELSE IF ~Head(rs).ok THEN Head(rs)
    ELSE LET rest == collect(Tail(rs))
         IN  IF rest.ok THEN Ok(<<Head(rs).val>> \o rest.val) ELSE rest

\* get_sources without the check of an empty result
get_sources_unchecked(content) ==
    collect(SelectSeq(get_sources_iter(content),
                      LAMBDA r : IF r.ok THEN is_valid(r.val) ELSE TRUE))

get_sources(content) ==
    LET collected ==
            collect(SelectSeq(get_sources_iter(content),
                              LAMBDA r : IF r.ok THEN is_valid(r.val) ELSE TRUE))
    IN  IF ~collected.ok THEN collected
        ELSE IF Len(collected.val) = 0 THEN Err("Empty discovered baselines")
        ELSE collected

\* entry(k).or_insert_with(Vec::new) followed by an insert instead of a push
entry_insert(g, k, source) ==
    [x \in DOMAIN g \cup {k} |-> IF x = k THEN <<source>> ELSE g[x]]

\* groups.entry(k).or_insert_with(Vec::new).push(source)
entry_push(g, k, source) ==
    IF k \in DOMAIN g
    THEN [g EXCEPT ![k] = Append(@, source)]
    ELSE [x \in DOMAIN g \cup {k} |-> IF x = k THEN <<source>> ELSE g[x]]

RECURSIVE push_sources(_, _)
push_sources(ss, g) ==
    IF ss = <<>> THEN g
    ELSE push_sources(Tail(ss), entry_push(g, from_source(Head(ss)), Head(ss)))

RECURSIVE group_loop(_, _)
group_loop(bs, g) ==
    IF bs = <<>> THEN Ok(g)
    ELSE LET r == get_sources(Head(bs))
         IN  IF ~r.ok THEN r ELSE group_loop(Tail(bs), push_sources(r.val, g))

group_sources(bs) == group_loop(bs, <<>>)

----------------------------------------------------------------------------
(* Index::train *)

\* What the environment does to each Source of a training run: the open
\* (file_open, url_open) fails, the trainer's add fails, or both succeed
TrainOutcomes == {"ok", "open failed", "add failed"}

\* The for loop of Index::train from Source i on, without the early returns
RECURSIVE trainer_loop_continue(_, _, _, _)
trainer_loop_continue(ss, i, index, outcomes) ==
    IF i > Len(ss)
    THEN [ok |-> TRUE, index |-> [index EXCEPT !.completed = TRUE], err |-> ""]
    ELSE IF outcomes[i] = "ok"
         THEN trainer_loop_continue(ss, i + 1,
                                    [index EXCEPT !.added = Append(@, ss[i])], outcomes)
         ELSE trainer_loop_continue(ss, i + 1, index, outcomes)

\* The for loop of Index::train from Source i on, then complete(); `added` lists
\* the Sources whose open and add both returned Ok
RECURSIVE trainer_loop(_, _, _, _)
trainer_loop(ss, i, index, outcomes) ==
    IF i > Len(ss)
    THEN [ok |-> TRUE, index |-> [index EXCEPT !.completed = TRUE], err |-> ""]
    ELSE IF outcomes[i] = "ok"
         THEN trainer_loop(ss, i + 1, [index EXCEPT !.added = Append(@, ss[i])], outcomes)
         ELSE [ok |-> FALSE, index |-> index, err |-> outcomes[i]]

\* Index::train starting at the second Source
Index_train_from_second(ss, index, outcomes) == trainer_loop(ss, 2, index, outcomes)

\* Index::train(sources, index): ok and the trained ChunkIndex, or the error and
\* the ChunkIndex as it is dropped
Index_train(ss, index, outcomes) == trainer_loop(ss, 1, index, outcomes)

----------------------------------------------------------------------------
(* Model::train and Model::save *)

SA1  == Local(2, <<"d", "/", "a", "1">>, TRUE)
SA2  == Remote(2, <<"h", "/", "a", "2">>)
SB   == Local(0, <<"b">>, TRUE)
SPNG == Local(2, <<"d", "/", "x", ".", "p", "n", "g">>, TRUE)
IterItems == { Ok(SA1), Ok(SA2), Ok(SB), Ok(SPNG), Err("enumeration failed") }

KindOf(iter) == IF Len(iter) = 1 /\ iter[1].ok THEN "File" ELSE "Directory"

\* Baselines of at most k Contents whose enumerators yield at most n items in all
RECURSIVE BaselinesUpTo(_, _)
BaselinesUpTo(k, n) ==
    IF k = 0 THEN { <<>> }
    ELSE { <<>> } \cup
         UNION { { <<Content(KindOf(iter), iter)>> \o rest
                     : rest \in BaselinesUpTo(k - 1, n - Len(iter)) }
                 : iter \in SeqsUpTo(IterItems, n) }

BaselineInputs == BaselinesUpTo(MaxContents, MaxItems)

InitTrain ==
    /\ pc = "train"
    /\ baselines \in BaselineInputs
    /\ grouped = None /\ groups = <<>> /\ indexes = <<>>
    /\ mk_calls = <<>> /\ dropped = <<>> /\ model = None /\ saved = <<>>
    /\ SourceIdle /\ LookupIdle /\ ReportIdle

\* Model::train up to the for loop: Content::group_sources(&baselines)?
TrainGroupSources ==
    /\ pc = "train"
    /\ LET r == group_sources(baselines)
       IN  /\ grouped' = r
           /\ IF r.ok
              THEN /\ groups' = r.val
                   /\ pc' = "train_loop"
                   /\ model' = model
              ELSE /\ groups' = groups
                   /\ pc' = "train_done"
                   /\ model' = Err(r.err)
    /\ UNCHANGED <<baselines, indexes, mk_calls, dropped, saved,
                   sourceVars, lookupVars, reportVars>>

\* One iteration of the for loop over the drained groups, in the map's order
TrainGroup ==
    /\ pc = "train_loop"
    /\ \E index_name \in DOMAIN groups :
         \E outcomes \in [1..Len(groups[index_name]) -> TrainOutcomes] :
            LET r == Index_train(groups[index_name], mk_index, outcomes)
            IN  /\ mk_calls' = Append(mk_calls, index_name)
                /\ groups' = [x \in DOMAIN groups \ {index_name} |-> groups[x]]
                /\ IF r.ok
                   THEN /\ indexes' =
                              [x \in DOMAIN indexes \cup {index_name} |->
                                  IF x = index_name THEN [index |-> r.index]
                                  ELSE indexes[x]]
                        /\ UNCHANGED <<pc, model, dropped>>
                   ELSE /\ pc' = "train_done"
                        /\ model' = Err(r.err)
                        /\ dropped' = Append(dropped,
                                             [index_name |-> index_name,
                                              outcomes |-> outcomes,
                                              index |-> r.index])
                        /\ UNCHANGED indexes
    /\ UNCHANGED <<baselines, grouped, saved, sourceVars, lookupVars, reportVars>>

\* The end of Model::train: Ok(Model { created_at, baselines, indexes })
TrainReturn ==
    /\ pc = "train_loop"
    /\ DOMAIN groups = {}
    /\ pc' = "train_done"
    /\ model' = Ok([baselines |-> baselines, indexes |-> indexes])
    /\ UNCHANGED <<baselines, grouped, groups, indexes, mk_calls, dropped, saved,
                   sourceVars, lookupVars, reportVars>>

\* Model::save of the Model that Model::train returned
Save ==
    /\ pc = "train_done"
    /\ model.ok
    /\ pc' = "saved"
    /\ saved' = Append(saved, model.val)
    /\ UNCHANGED <<baselines, grouped, groups, indexes, mk_calls, dropped, model,
                   sourceVars, lookupVars, reportVars>>

NextTrain == TrainGroupSources \/ TrainGroup \/ TrainReturn \/ Save

SpecTrain == InitTrain /\ [][NextTrain]_vars

\* The valid Sources of every baseline, in encounter order
RECURSIVE ValidSources(_)
ValidSources(bs) ==
    IF bs = <<>> THEN <<>>
    ELSE SelectSeq(Head(bs).iter, LAMBDA r : r.ok /\ is_valid(r.val))
         \o ValidSources(Tail(bs))

\* C4: when group_sources returns Ok, no group is empty and the group of each
\* IndexName is the subsequence, in encounter order, of the baselines' Sources
\* whose from_source is that IndexName; every Source's IndexName has a group.
\* (Hence each Source occurrence is in exactly one group, and the groups
\* together are the input multiset.)
C4_GroupSourcesPartition ==
    (pc # "train" /\ grouped.ok) =>
        LET all == [i \in 1..Len(ValidSources(baselines)) |->
                       ValidSources(baselines)[i].val]
            g   == grouped.val
        IN  /\ \A k \in DOMAIN g :
                  /\ g[k] # <<>>
                  /\ g[k] = SelectSeq(all, LAMBDA s : from_source(s) = k)
            /\ \A i \in 1..Len(all) : from_source(all[i]) \in DOMAIN g

\* group_sources has pooled Sources of two Contents into one group, beside
\* another group
C4_Witness ==
    /\ pc # "train" /\ grouped.ok
    /\ Len(baselines) = 2
    /\ Cardinality(DOMAIN grouped.val) = 2
    /\ \E k \in DOMAIN grouped.val :
          /\ Len(grouped.val[k]) = 2
          /\ grouped.val[k][1] # grouped.val[k][2]
          /\ Ok(grouped.val[k][1]) = baselines[1].iter[1]
          /\ \E j \in 1..Len(baselines[2].iter) :
                Ok(grouped.val[k][2]) = baselines[2].iter[j]

\* The first Source of a training run that did not go through
FirstFailure(outcomes) ==
    CHOOSE i \in DOMAIN outcomes :
        outcomes[i] # "ok" /\ \A j \in 1..(i - 1) : outcomes[j] = "ok"

\* C7: an Index::train that met a failing Source returned that Source's error,
\* had added exactly the Sources before it and had not run complete; Model::train
\* then returned that error and no Model, and nothing was saved; every Index of
\* a saved Model is complete and holds all the Sources of its group.
C7_TrainAllOrNothing ==
    /\ \A n \in 1..Len(dropped) :
          LET d  == dropped[n]
              ss == grouped.val[d.index_name]
              f  == FirstFailure(d.outcomes)
          IN  /\ d.index.added = SubSeq(ss, 1, f - 1)
              /\ ~d.index.completed
              /\ model = Err(d.outcomes[f])
    /\ dropped # <<>> =>
          /\ Len(dropped) = 1
          /\ pc = "train_done"
          /\ saved = <<>>
          /\ ~ENABLED TrainGroup
    /\ (pc \in {"train_done", "saved"} /\ \E k \in DOMAIN groups : TRUE) => ~model.ok
    /\ \A n \in 1..Len(saved) : \A k \in DOMAIN saved[n].indexes :
          /\ saved[n].indexes[k].index.completed
          /\ saved[n].indexes[k].index.added = grouped.val[k]

\* a training run has failed at a Source that has Sources before and after it
C7_Witness ==
    /\ pc = "train_done"
    /\ dropped # <<>>
    /\ dropped[1].index.added # <<>>
    /\ Len(dropped[1].index.added) + 1 < Len(grouped.val[dropped[1].index_name])

\* C9: a successful Model::train has one Index per group of group_sources,
\* called mk_index exactly once per group, and trained the Index of each group
\* from that group's Sources, in the group's order.
C9_TrainPerGroup ==
    (pc \in {"train_done", "saved"} /\ model.ok) =>
        LET g == grouped.val
            m == model.val.indexes
        IN  /\ DOMAIN m = DOMAIN g
            /\ Len(mk_calls) = Cardinality(DOMAIN g)
            /\ \A k \in DOMAIN g : \E n \in 1..Len(mk_calls) : mk_calls[n] = k
            /\ \A k \in DOMAIN g :
                  /\ m[k].index.added = g[k]
                  /\ m[k].index.completed

\* a Model has been trained from two groups, one of them of several Sources
C9_Witness ==
    /\ pc = "train_done" /\ model.ok
    /\ Cardinality(DOMAIN model.val.indexes) = 2
    /\ \E k \in DOMAIN model.val.indexes : Len(model.val.indexes[k].index.added) >= 2

----------------------------------------------------------------------------
(* Index::inspect and Model::report *)

get_index(idx, source) == lookup_or_single(idx, from_source(source))

\* inspect returning an empty sequence when the open fails
inspect_empty_on_error(source, opened, processor) ==
    IF opened THEN processor ELSE <<>>

\* Index::inspect: `opened` is whether file_open or url_open succeeded,
\* `processor` what the ChunkProcessor over the opened Source yields
inspect(source, opened, processor) ==
    CASE source.kind = "Local" ->
            IF opened THEN processor ELSE <<Err("open failed")>>
      [] source.kind = "Remote" ->
            IF opened THEN processor ELSE <<Err("open failed")>>

LogReport(anomalies) == [anomalies |-> anomalies]

\* the push of a LogReport whatever the anomalies
push_log_report_always(v, anomalies) == Append(v, LogReport(anomalies))

\* if !anomalies.is_empty() { targets.push(LogReport { .. }) }
push_log_report(v, anomalies) ==
    IF anomalies # <<>> THEN Append(v, LogReport(anomalies)) ELSE v

\* The AnomalyContexts of a Source carry its lines
AnomalyContext(source) == [line |-> get_relative(source)]

\* What a ChunkProcessor over a Source may yield
ProcessorInputs(source) ==
    SeqsUpTo({ Ok(AnomalyContext(source)), Err("read failed") }, MaxStream)

IndexOf(name) == [index |-> [added |-> <<Remote(0, name)>>, completed |-> TRUE]]
IndexesInputs == { [k \in K |-> IndexOf(k)] : K \in SUBSET KeyInputs }
TargetInputs ==
    UNION { { Content(KindOf(iter), iter), Content("Zuul", iter) }
            : iter \in SeqsUpTo(IterItems, MaxTarget) }

InitReport ==
    /\ pc = "report"
    /\ self_indexes \in IndexesInputs
    /\ target \in TargetInputs
    /\ sources = <<>> /\ pos = 0 /\ targets = <<>> /\ inspected = <<>>
    /\ report = None
    /\ SourceIdle /\ LookupIdle /\ TrainIdle

\* Model::report up to the for loop: target.get_sources()?
ReportGetSources ==
    /\ pc = "report"
    /\ LET r == get_sources(target)
       IN  /\ sources' = r
           /\ IF r.ok
              THEN pc' = "report_loop" /\ pos' = 1 /\ report' = report
              ELSE pc' = "report_done" /\ pos' = pos /\ report' = Err(r.err)
    /\ UNCHANGED <<self_indexes, target, targets, inspected,
                   sourceVars, lookupVars, trainVars>>

\* One iteration of the for loop: get_index(..).expect(..), inspect, collect, ?
ReportSource ==
    /\ pc = "report_loop"
    /\ pos <= Len(sources.val)
    /\ LET source == sources.val[pos]
           index  == get_index(self_indexes, source)
       IN  IF ~index.some
           THEN /\ pc' = "panicked"
                /\ UNCHANGED <<pos, targets, inspected, report>>
           ELSE \E opened \in BOOLEAN : \E processor \in ProcessorInputs(source) :
                   LET items     == inspect(source, opened, processor)
                       anomalies == collect(items)
                   IN  /\ inspected' = Append(inspected,
                                              [source |-> source, index |-> index.val,
                                               opened |-> opened, items |-> items])
                       /\ IF anomalies.ok
                          THEN /\ targets' = push_log_report(targets, anomalies.val)
                               /\ pos' = pos + 1
                               /\ UNCHANGED <<pc, report>>
                          ELSE /\ pc' = "report_done"
                               /\ report' = Err(anomalies.err)
                               /\ UNCHANGED <<pos, targets>>
    /\ UNCHANGED <<self_indexes, target, sources, sourceVars, lookupVars, trainVars>>

\* The end of Model::report: Ok(Report { created_at, targets })
ReportReturn ==
    /\ pc = "report_loop"
    /\ pos > Len(sources.val)
    /\ pc' = "report_done"
    /\ report' = Ok([targets |-> targets])
    /\ UNCHANGED <<self_indexes, target, sources, pos, targets, inspected,
                   sourceVars, lookupVars, trainVars>>

NextReport == ReportGetSources \/ ReportSource \/ ReportReturn

SpecReport == InitReport /\ [][NextReport]_vars

\* C8: a successful get_sources is, in enumeration order, the Sources of the
\* enumerator whose path does not end with a non-text extension, and is not
\* empty; an enumeration without error that leaves no Source is an error, one
\* that leaves a Source succeeds.
C8_GetSourcesFiltered ==
    pc \in {"report_loop", "report_done", "panicked"} =>
        LET iter  == target.iter
            allok == \A i \in 1..Len(iter) : iter[i].ok
            kept  == SelectSeq(iter, LAMBDA r :
                        r.ok /\ \A ext \in NonTextExtensions :
                                    ~ends_with(r.val.path, ext))
            vals  == [i \in 1..Len(kept) |-> kept[i].val]
        IN  /\ sources.ok => (allok /\ sources.val = vals /\ Len(sources.val) > 0)
            /\ (allok /\ vals = <<>>) => ~sources.ok
            /\ (allok /\ vals # <<>>) => sources.ok

\* get_sources has removed a Source with a non-text extension and kept another
C8_Witness ==
    /\ pc = "report_loop"
    /\ Len(target.iter) = 2
    /\ Len(sources.val) = 1
    /\ target.iter[1] = Ok(SPNG)

\* C2: the targets of an Ok Report hold no LogReport without anomalies, and are
\* the anomalies of the target's Sources that yielded some, one LogReport per
\* such Source, in the order of get_sources.
C2_ReportOnlyAnomalies ==
    (pc = "report_done" /\ report.ok) =>
        LET perSource == [i \in 1..Len(inspected) |->
                            LogReport([j \in 1..Len(inspected[i].items) |->
                                          inspected[i].items[j].val])]
        IN  /\ \A i \in 1..Len(report.val.targets) :
                  report.val.targets[i].anomalies # <<>>
            /\ Len(inspected) = Len(sources.val)
            /\ \A i \in 1..Len(inspected) :
                  /\ inspected[i].source = sources.val[i]
                  /\ \A j \in 1..Len(inspected[i].items) : inspected[i].items[j].ok
            /\ report.val.targets =
                  SelectSeq(perSource, LAMBDA l : l.anomalies # <<>>)

\* a Report of two Sources, the first without anomalies, the second with some
C2_Witness ==
    /\ pc = "report_done" /\ report.ok
    /\ Len(inspected) = 2
    /\ inspected[1].items = <<>>
    /\ inspected[2].items # <<>>
    /\ Len(report.val.targets) = 1

\* C3: once report has ended, a Source whose open failed has a single error as
\* its result sequence, and all the target's Sources have been inspected.
C3_OpenFailureDoesNotAbort ==
    pc = "report_done" =>
        \A i \in 1..Len(inspected) :
            ~inspected[i].opened =>
                /\ inspected[i].items = <<Err("open failed")>>
                /\ Len(inspected) = Len(sources.val)

\* C6: inspect of a Source whose open fails yields exactly one element, the open
\* error, and no AnomalyContext.
C6_InspectOpenFailure ==
    \A i \in 1..Len(inspected) :
        ~inspected[i].opened =>
            /\ Len(inspected[i].items) = 1
            /\ ~inspected[i].items[1].ok
            /\ inspected[i].items[1].err = "open failed"

\* inspect has been called on a Remote Source whose open failed
C6_Witness ==
    \E i \in 1..Len(inspected) :
        ~inspected[i].opened /\ inspected[i].source.kind = "Remote"

\* C10: report on a target with a Source for which get_index finds no Index
\* returns an error to its caller: the process is never aborted.
C10_MissingIndexIsError == pc # "panicked"

====
